---- MODULE Spec2Model ----
(***************************************************************************)
(* Model of libs/exerciseStatistics.py: the csv loader and the three chart *)
(* routines plot3dBarChart, plotTrend and plotDailyTimeSpent.              *)
(*                                                                         *)
(* Strings that the code parses (set values, durations, dates) are         *)
(* sequences of one-character strings; column names are TLA+ strings.      *)
(* Python's None is the value None below; the key None that csv.DictReader *)
(* adds for surplus fields is NoneKey.                                     *)
(* The variable driver is the position of the batch script                 *)
(* plotPullUpStatistics.py in its loops; it is idle when the routines are  *)
(* called directly.                                                        *)
(***************************************************************************)
EXTENDS Integers, Sequences, FiniteSets, TLC

VARIABLES csvFile, loaded, header, data, rcParams, last, driver

vars == <<csvFile, loaded, header, data, rcParams, last, driver>>

\* ------------------------------------------------------------------------
\* Bounds of the model.
MaxRows == 3            \* rows of the tables of InitShape
MaxSets == 2            \* 'Set N' columns of the tables of InitShape
MaxTrendRows == 3       \* rows of the tables of InitTrend
MaxTimeRows == 2        \* rows of the tables of InitTime
MaxLongRows == 9        \* rows of the tables of InitLong
MaxCsvRows == 2         \* data rows of the ragged files of InitCsv
MaxCfgRows == 2         \* rows of the tables of Init
MaxScriptRows == 3      \* rows of the tables of InitScript
ExtraDays == 3          \* how far past the table a requested day may lie

\* ------------------------------------------------------------------------
\* Python values and string primitives.
None == <<"<None>">>
NoneKey == "<None>"

Digits == <<"0", "1", "2", "3", "4", "5", "6", "7", "8", "9">>

IsDigit(c) == \E i \in 1..10 : Digits[i] = c

DigitVal(c) == (CHOOSE i \in 1..10 : Digits[i] = c) - 1

Max(a, b) == IF a >= b THEN a ELSE b

Min(a, b) == IF a <= b THEN a ELSE b

RECURSIVE SumSeq(_)
SumSeq(s) == IF s = <<>> THEN 0 ELSE Head(s) + SumSeq(Tail(s))

\* str.split(sep): the fields between every occurrence of sep.
RECURSIVE SplitFrom(_, _, _)
SplitFrom(s, sep, cur) ==
    IF s = <<>> THEN <<cur>>
    ELSE IF Head(s) = sep THEN <<cur>> \o SplitFrom(Tail(s), sep, <<>>)
    ELSE SplitFrom(Tail(s), sep, Append(cur, Head(s)))

Split(s, sep) == SplitFrom(s, sep, <<>>)

\* str.strip() for the blank character.
RECURSIVE LStrip(_)
LStrip(s) == IF s # <<>> /\ Head(s) = " " THEN LStrip(Tail(s)) ELSE s

RECURSIVE RStrip(_)
RStrip(s) ==
    IF s # <<>> /\ s[Len(s)] = " " THEN RStrip(SubSeq(s, 1, Len(s) - 1)) ELSE s

RECURSIVE DigitsVal(_, _)
DigitsVal(s, acc) ==
    IF s = <<>> THEN acc ELSE DigitsVal(Tail(s), 10 * acc + DigitVal(Head(s)))

\* int(str): blanks around, an optional sign, then one or more digits.
PyInt(s) ==
    LET t == RStrip(LStrip(s))
        signed == t # <<>> /\ Head(t) \in {"-", "+"}
        body == IF signed THEN Tail(t) ELSE t
    IN IF body # <<>> /\ \A i \in 1..Len(body) : IsDigit(body[i])
       THEN [ok |-> TRUE,
             val |-> IF signed /\ Head(t) = "-" THEN 0 - DigitsVal(body, 0)
                     ELSE DigitsVal(body, 0)]
       ELSE [ok |-> FALSE, val |-> 0]

\* int(x) of a quotient num/den, den > 0: truncation towards zero.
TruncDiv(num, den) == IF num >= 0 THEN num \div den ELSE 0 - ((0 - num) \div den)

\* list[i] with Python's negative indices; IndexError when out of range.
PyIndexOk(list, i) == i < Len(list) /\ i >= 0 - Len(list)

PyIndex(list, i) == IF i >= 0 THEN list[i + 1] ELSE list[Len(list) + i + 1]

\* 'Set '+str(n)
SetKey(n) == "Set " \o ToString(n)

\* field.lower().startswith('set'), over the column names of the model.
StartsWithSet(field) == \E n \in 1..9 : field = SetKey(n)

\* ------------------------------------------------------------------------
\* csv.DictReader: one record per non-empty data row.
DictRow(fieldnames, row) ==
    LET lf == Len(fieldnames)
        lr == Len(row)
        keys == {fieldnames[i] : i \in 1..lf} \cup
                (IF lf < lr THEN {NoneKey} ELSE {})
    IN [key \in keys |->
          IF key = NoneKey THEN SubSeq(row, lf + 1, lr)
          ELSE LET i == CHOOSE j \in 1..lf : fieldnames[j] = key
               IN IF i <= lr THEN row[i] ELSE None]

RECURSIVE DictRows(_, _)
DictRows(fieldnames, rows) ==
    IF rows = <<>> THEN <<>>
    ELSE IF Head(rows) = <<>> THEN DictRows(fieldnames, Tail(rows))
    ELSE <<DictRow(fieldnames, Head(rows))>> \o DictRows(fieldnames, Tail(rows))

getNumsOfRowsAndSets(h, d) ==
    <<Len(d), Cardinality({i \in 1..Len(h) : StartsWithSet(h[i])})>>

\* ------------------------------------------------------------------------
\* Arguments of the chart routines.  An optional integer argument is <<>>
\* when omitted (None) and <<v>> when given.
NoArg == <<>>

Arg(v) == <<v>>

\* Visual options of one call: the keyword defaults of the library, the
\* options of the batch driver (plotPullUpStatistics.py) and a wide variant.
DefaultCfg ==
    [fontInPlot |-> "Microsoft YaHei", labelSize |-> "large",
     titleSize |-> "large", tickSize |-> "large", figureSize |-> "None"]

DriverCfg ==
    [fontInPlot |-> "Microsoft YaHei", labelSize |-> "30",
     titleSize |-> "40", tickSize |-> "30", figureSize |-> "(9,16)"]

WideCfg ==
    [fontInPlot |-> "SimHei", labelSize |-> "30",
     titleSize |-> "40", tickSize |-> "30", figureSize |-> "(16,9)"]

Cfgs == {DefaultCfg, DriverCfg, WideCfg}

\* matplotlib's configuration before any call.
RcDefaults ==
    [font_sans_serif |-> "<default>", axes_unicode_minus |-> "True",
     axes_labelsize |-> "medium", axes_titlesize |-> "large",
     xtick_labelsize |-> "medium", ytick_labelsize |-> "medium",
     figure_figsize |-> "<default>"]

\* Variant of SetRcParams: the font is set only when no font was set before.
SetRcParams_KeepFont(rc, cfg) ==
    [rc EXCEPT !.font_sans_serif = IF @ = "<default>" THEN cfg.fontInPlot
                                   ELSE @,
               !.axes_unicode_minus = "False",
               !.axes_labelsize = cfg.labelSize,
               !.axes_titlesize = cfg.titleSize,
               !.xtick_labelsize = cfg.tickSize,
               !.ytick_labelsize = cfg.tickSize,
               !.figure_figsize = IF cfg.figureSize # "None"
                                  THEN cfg.figureSize ELSE @]

\* The assignments to mpl.rcParams that open each chart routine.
SetRcParams(rc, cfg) ==
    [rc EXCEPT !.font_sans_serif = cfg.fontInPlot,
               !.axes_unicode_minus = "False",
               !.axes_labelsize = cfg.labelSize,
               !.axes_titlesize = cfg.titleSize,
               !.xtick_labelsize = cfg.tickSize,
               !.ytick_labelsize = cfg.tickSize,
               !.figure_figsize = IF cfg.figureSize # "None"
                                  THEN cfg.figureSize ELSE @]

\* ------------------------------------------------------------------------
\* constructTitleFromDate: status of the call and the title it formats.
TitleStatus(d, idxRow) ==
    IF ~PyIndexOk(d, idxRow) THEN "IndexError"
    ELSE LET rec == PyIndex(d, idxRow)
         IN IF "Date" \notin DOMAIN rec THEN "KeyError"
            ELSE IF rec["Date"] = None THEN "AttributeError"
            ELSE IF Len(Split(rec["Date"], "/")) # 3 THEN "ValueError"
            ELSE "ok"

constructTitleFromDate(d, idxRow) ==
    LET parts == Split(PyIndex(d, idxRow)["Date"], "/")
    IN [day |-> idxRow + 1, year |-> parts[3], month |-> parts[1],
        date |-> parts[2]]

NoTitle == [day |-> 0, year |-> <<>>, month |-> <<>>, date |-> <<>>]

\* int(data[idxRow]['Set '+str(j)]): what the lookup and the parse raise.
SetCellStatus(rec, j) ==
    IF SetKey(j) \notin DOMAIN rec THEN "KeyError"
    ELSE IF rec[SetKey(j)] = None THEN "TypeError"
    ELSE IF ~PyInt(rec[SetKey(j)]).ok THEN "ValueError"
    ELSE "ok"

SetCellValue(rec, j) == PyInt(rec[SetKey(j)]).val

\* The first failure of a double loop over rows 1..rows, row r reading the
\* cells 1..width[r] in order; "ok" when every cell parses.
LoopStatus(d, rows, width) ==
    LET bad == {c \in (1..rows) \X (1..9) :
                   c[2] <= width[c[1]] /\ SetCellStatus(d[c[1]], c[2]) # "ok"}
    IN IF bad = {} THEN "ok"
       ELSE LET first == CHOOSE c \in bad : \A o \in bad :
                            c[1] < o[1] \/ (c[1] = o[1] /\ c[2] <= o[2])
            IN SetCellStatus(d[first[1]], first[2])

\* ------------------------------------------------------------------------
\* The result of the latest call, as the caller and the figure see it.
NoResult ==
    [op |-> "none", cfg |-> DefaultCfg, numOfRowsToShow |-> NoArg, numOfSetsToShowForLastRow |-> NoArg,
     status |-> "none", title |-> NoTitle, histSetValues |-> <<>>,
     bars |-> <<>>, firstSetReps |-> <<>>, totalReps |-> <<>>,
     fit |-> <<>>, xsPre |-> <<>>, totalRepsPre |-> <<>>,
     firstSetRepsPre |-> <<>>, workoutTimesInS |-> <<>>]

\* Colour palette size, and the opacities in tenths.
NumColors == 7
alpha == 8
barAlphaMax == 10
barAlphaMin == 3
barAlphaStep == 1
minNumSetsToShow == 5

\* ax.bar(xs, ys): numpy broadcasting of the two lists.
BarBroadcastOk(xs, ys) == Len(xs) = Len(ys) \/ Len(xs) = 1 \/ Len(ys) = 1

\* Variant of HistSetValues: the last day is populated in full.
HistSetValues_FullLastRow(d, numOfRowsToShow, numOfSetsToShowForLastRow, totalNumOfSets) ==
    [idxRow \in 1..numOfRowsToShow |->
       [idxSet \in 1..totalNumOfSets |-> SetCellValue(d[idxRow], idxSet)]]

\* The set matrix of plot3dBarChart.
HistSetValues(d, numOfRowsToShow, numOfSetsToShowForLastRow, totalNumOfSets) ==
    [idxRow \in 1..numOfRowsToShow |->
       [idxSet \in 1..totalNumOfSets |->
          IF idxSet <= (IF idxRow = numOfRowsToShow
                        THEN numOfSetsToShowForLastRow ELSE totalNumOfSets)
          THEN SetCellValue(d[idxRow], idxSet) ELSE 0]]

\* Variant of BarAlpha: no floor.
BarAlpha_NoFloor(numOfRowsToShow, ir) ==
    barAlphaMax - (numOfRowsToShow - 1 - ir) * barAlphaStep

\* The opacity of the bars of row ir (0-based) in the 3D branch.
BarAlpha(numOfRowsToShow, ir) ==
    Max(barAlphaMax - (numOfRowsToShow - 1 - ir) * barAlphaStep, barAlphaMin)

\* The bars of the 2D branch (one day).
Bars2D(hist, numOfSetsToShowForLastRow) ==
    LET numOfSetsToShow == Max(minNumSetsToShow, numOfSetsToShowForLastRow)
        xs == [v \in 1..numOfSetsToShow |-> v]
        ys == SubSeq(hist[1], 1, Min(numOfSetsToShow, Len(hist[1])))
    IN <<[xs |-> xs, ys |-> ys, z |-> 0, color |-> 0, alpha |-> alpha]>>

\* The bars of the 3D branch, one entry per day, oldest first.
Bars3D(hist, numOfRowsToShow, totalNumOfSets) ==
    [i \in 1..numOfRowsToShow |->
       [xs |-> [v \in 1..totalNumOfSets |-> v], ys |-> hist[i],
        z |-> numOfRowsToShow - (i - 1) - 1, color |-> (i - 1) % NumColors,
        alpha |-> BarAlpha(numOfRowsToShow, i - 1)]]

RangeErrorMsg == "ValueError: numOfRowsToShow should be at least 1!"

Plot3dBarChartResult(h, d, nArg, kArg) ==
    LET totalNumOfRows == getNumsOfRowsAndSets(h, d)[1]
        totalNumOfSets == getNumsOfRowsAndSets(h, d)[2]
        numOfRowsToShow == IF nArg = NoArg THEN totalNumOfRows ELSE nArg[1]
        numOfSetsToShowForLastRow ==
            IF kArg = NoArg THEN totalNumOfSets ELSE kArg[1]
        base == [NoResult EXCEPT !.op = "plot3dBarChart",
                                 !.numOfRowsToShow = nArg,
                                 !.numOfSetsToShowForLastRow = kArg]
        titleSt == TitleStatus(d, numOfRowsToShow - 1)
        width == [r \in 1..Max(numOfRowsToShow, 0) |->
                    IF r = numOfRowsToShow THEN numOfSetsToShowForLastRow
                    ELSE totalNumOfSets]
        loopSt == LoopStatus(d, numOfRowsToShow, width)
        hist == HistSetValues(d, numOfRowsToShow, numOfSetsToShowForLastRow,
                              totalNumOfSets)
        titled == [base EXCEPT !.title =
                      constructTitleFromDate(d, numOfRowsToShow - 1)]
    IN IF titleSt # "ok" THEN [base EXCEPT !.status = titleSt]
       ELSE IF loopSt # "ok" THEN [titled EXCEPT !.status = loopSt]
       ELSE IF numOfRowsToShow < 1
            THEN [titled EXCEPT !.status = RangeErrorMsg,
                                !.histSetValues = hist]
       ELSE IF numOfRowsToShow = 1
            THEN LET bars == Bars2D(hist, numOfSetsToShowForLastRow)
                 IN IF BarBroadcastOk(bars[1].xs, bars[1].ys)
                    THEN [titled EXCEPT !.status = "ok",
                                        !.histSetValues = hist, !.bars = bars]
                    ELSE [titled EXCEPT !.status = "ValueError",
                                        !.histSetValues = hist]
       ELSE [titled EXCEPT !.status = "ok", !.histSetValues = hist,
                           !.bars = Bars3D(hist, numOfRowsToShow,
                                           totalNumOfSets)]

\* ------------------------------------------------------------------------
\* Variant of PolyFit: the line through the last two points only.
PolyFit_LastTwo(xs, ys) ==
    LET n == Len(xs)
    IN IF n = 1
       THEN [a |-> ys[1], b |-> ys[1] * xs[1], den |-> 2 * xs[1]]
       ELSE [a |-> ys[n] - ys[n - 1],
             b |-> ys[n - 1] * xs[n] - ys[n] * xs[n - 1],
             den |-> xs[n] - xs[n - 1]]

\* np.polyfit(xs, ys, 1) as exact rationals: slope a/den, intercept b/den.
\* With two or more distinct xs this is the least-squares line.  With one
\* point the system is rank deficient: polyfit warns (RankWarning), raises
\* nothing and returns the minimum-norm solution, slope = intercept = y/2
\* for the single x = 1 the code passes.
PolyFit(xs, ys) ==
    LET n == Len(xs)
        Sx == SumSeq(xs)
        Sy == SumSeq(ys)
        Sxx == SumSeq([i \in 1..n |-> xs[i] * xs[i]])
        Sxy == SumSeq([i \in 1..n |-> xs[i] * ys[i]])
    IN IF n = 1
       THEN [a |-> ys[1], b |-> ys[1] * xs[1], den |-> 2 * xs[1]]
       ELSE [a |-> n * Sxy - Sx * Sy, b |-> Sy * Sxx - Sx * Sxy,
             den |-> n * Sxx - Sx * Sx]

\* a*x+b for x in xsPre, each value as <<numerator, denominator>>.
Predict(fit, xsPre) ==
    [i \in 1..Len(xsPre) |-> <<fit.a * xsPre[i] + fit.b, fit.den>>]

\* The per-day series of plotTrend.
FirstSetReps(d, numOfRowsToShow, totalNumOfSets) ==
    [idxRow \in 1..numOfRowsToShow |->
       IF totalNumOfSets >= 1 THEN SetCellValue(d[idxRow], 1) ELSE 0]

\* Variant of TotalReps: the running total is carried over from day to day.
TotalReps_Running(d, numOfRowsToShow, totalNumOfSets) ==
    [idxRow \in 1..numOfRowsToShow |->
       SumSeq([r \in 1..idxRow |->
                 SumSeq([idxSet \in 1..totalNumOfSets |->
                           SetCellValue(d[r], idxSet)])])]

TotalReps(d, numOfRowsToShow, totalNumOfSets) ==
    [idxRow \in 1..numOfRowsToShow |->
       SumSeq([idxSet \in 1..totalNumOfSets |->
                 SetCellValue(d[idxRow], idxSet)])]

PlotTrendResult(h, d, nArg) ==
    LET totalNumOfRows == getNumsOfRowsAndSets(h, d)[1]
        totalNumOfSets == getNumsOfRowsAndSets(h, d)[2]
        extraRowsToPredict ==
            IF nArg # NoArg /\ nArg[1] > totalNumOfRows
            THEN nArg[1] - totalNumOfRows ELSE 0
        numOfRowsToShow ==
            IF nArg = NoArg \/ nArg[1] > totalNumOfRows
            THEN totalNumOfRows ELSE nArg[1]
        base == [NoResult EXCEPT !.op = "plotTrend", !.numOfRowsToShow = nArg]
        titleSt == TitleStatus(d, numOfRowsToShow - 1)
        width == [r \in 1..Max(numOfRowsToShow, 0) |-> totalNumOfSets]
        loopSt == LoopStatus(d, numOfRowsToShow, width)
        firstSetReps == FirstSetReps(d, numOfRowsToShow, totalNumOfSets)
        totalReps == TotalReps(d, numOfRowsToShow, totalNumOfSets)
        xs == [r \in 1..numOfRowsToShow |-> r]
        xsPre == <<1, numOfRowsToShow + extraRowsToPredict>>
        fitFirst == PolyFit(xs, firstSetReps)
        fitTotal == PolyFit(xs, totalReps)
        shown == [base EXCEPT !.status = "ok",
                     !.title = constructTitleFromDate(d, numOfRowsToShow - 1),
                     !.firstSetReps = firstSetReps, !.totalReps = totalReps]
    IN IF titleSt # "ok" THEN [base EXCEPT !.status = titleSt]
       ELSE IF loopSt # "ok" THEN [base EXCEPT !.status = loopSt]
       ELSE IF extraRowsToPredict > 0
            THEN [shown EXCEPT !.fit = <<fitFirst, fitTotal>>,
                               !.xsPre = xsPre,
                               !.firstSetRepsPre = Predict(fitFirst, xsPre),
                               !.totalRepsPre = Predict(fitTotal, xsPre)]
       ELSE shown

\* ------------------------------------------------------------------------
\* plotDailyTimeSpent: one duration string to seconds.
SecondsPerDay == 86400

\* Variant of WorkoutTimeStatus: fields after the third are ignored.
WorkoutTimeStatus_ExtraFields(rec) ==
    IF "WorkoutTime" \notin DOMAIN rec THEN "KeyError"
    ELSE IF rec["WorkoutTime"] = None THEN "AttributeError"
    ELSE LET parts == Split(rec["WorkoutTime"], ":")
         IN IF Len(parts) < 3 THEN "ValueError"
            ELSE IF \E i \in 1..3 : ~PyInt(parts[i]).ok THEN "ValueError"
            ELSE "ok"

WorkoutTimeStatus(rec) ==
    IF "WorkoutTime" \notin DOMAIN rec THEN "KeyError"
    ELSE IF rec["WorkoutTime"] = None THEN "AttributeError"
    ELSE LET parts == Split(rec["WorkoutTime"], ":")
         IN IF Len(parts) # 3 THEN "ValueError"
            ELSE IF \E i \in 1..3 : ~PyInt(parts[i]).ok THEN "ValueError"
            ELSE "ok"

\* Variant of WorkoutTimeInS: hours counted as minutes.
WorkoutTimeInS_HoursAsMinutes(workoutTimeStr) ==
    LET parts == Split(workoutTimeStr, ":")
    IN (PyInt(parts[1]).val + PyInt(parts[2]).val) * 60
       + PyInt(parts[3]).val

WorkoutTimeInS(workoutTimeStr) ==
    LET parts == Split(workoutTimeStr, ":")
    IN (PyInt(parts[1]).val * 60 + PyInt(parts[2]).val) * 60
       + PyInt(parts[3]).val

PlotDailyTimeSpentResult(h, d, nArg) ==
    LET numOfRowsToShow == IF nArg = NoArg THEN 0 ELSE nArg[1]
        base == [NoResult EXCEPT !.op = "plotDailyTimeSpent",
                                 !.numOfRowsToShow = nArg]
        titleSt == TitleStatus(d, numOfRowsToShow - 1)
        bad == {r \in 1..numOfRowsToShow : WorkoutTimeStatus(d[r]) # "ok"}
        workoutTimesInS ==
            [r \in 1..numOfRowsToShow |-> WorkoutTimeInS(d[r]["WorkoutTime"])]
        meanS == TruncDiv(SumSeq(workoutTimesInS), numOfRowsToShow)
        parsed == [base EXCEPT !.workoutTimesInS = workoutTimesInS,
                      !.title = constructTitleFromDate(d, numOfRowsToShow - 1)]
    IN IF nArg = NoArg THEN [base EXCEPT !.status = "TypeError"]
       ELSE IF titleSt # "ok" THEN [base EXCEPT !.status = titleSt]
       ELSE IF bad # {}
            THEN [base EXCEPT !.status =
                     WorkoutTimeStatus(d[CHOOSE r \in bad :
                                           \A o \in bad : r <= o])]
       ELSE IF numOfRowsToShow = 0
            THEN [parsed EXCEPT !.status = "ZeroDivisionError"]
       ELSE IF numOfRowsToShow < 0
            THEN [parsed EXCEPT !.status = "IndexError"]
       ELSE IF meanS < 0 \/ meanS >= SecondsPerDay
            THEN [parsed EXCEPT !.status = "ValueError"]
       ELSE [parsed EXCEPT !.status = "ok"]

\* ------------------------------------------------------------------------
\* The csv files of the model.
DateStr == <<"4", "/", "1", "/", "2", "0", "2", "0">>

TimeStr == <<"0", ":", "0", "4", ":", "1", "0">>

Header(numSets) == <<"Date", "WorkoutTime">> \o [i \in 1..numSets |-> SetKey(i)]

Row(date, time, sets) == <<date, time>> \o sets

\* Set values of the tables of InitShape and of InitTrend.
SetStrs == {<<"3">>, <<"1", "2">>}

TrendStrs == {<<"1", "0">>, <<"2", "0">>, <<"3", "0">>}

\* Duration strings: H:MM:SS ones, and ones that are not.
TimeStrs ==
    { TimeStr,
      <<"1", ":", "0", "0", ":", "0", "0">>,
      <<"a", "b", "c">>,
      <<"0", "4", ":", "1", "0">>,
      <<"0", ":", "0", ":", "0", "4", ":", "1", "0">>,
      <<"0", ":", "0", "a", ":", "1", "0">>,
      <<"0", ":", "7", "5", ":", "9", "9">>,
      <<"0", ":", "4", ":", "1", "0">>,
      <<"-", "1", ":", "0", "0", ":", "0", "0">>,
      <<"2", "4", ":", "0", "0", ":", "0", "0">> }

\* Rows of a ragged file: too short, exact, too long (header of 3 columns).
CsvRows ==
    { <<DateStr, TimeStr>>,
      <<DateStr, TimeStr, <<"3">>>>,
      <<DateStr, TimeStr, <<"3">>, <<"1", "2">>>>,
      <<>> }

\* The position of the batch script: the loop it is in and its indices.
ScriptAt(pc, idxRow, idxSet) == [pc |-> pc, idxRow |-> idxRow, idxSet |-> idxSet]

InitRest ==
    /\ loaded = FALSE
    /\ header = <<>>
    /\ data = <<>>
    /\ rcParams = RcDefaults
    /\ last = NoResult
    /\ driver = ScriptAt("idle", 0, 0)

InitShape ==
    /\ \E numSets \in 1..MaxSets, numRows \in 0..MaxRows :
         \E cells \in [1..numRows -> [1..numSets -> SetStrs]] :
            csvFile = <<Header(numSets)>> \o
                      [r \in 1..numRows |-> Row(DateStr, TimeStr, cells[r])]
    /\ InitRest

InitTrend ==
    /\ \E numRows \in 1..MaxTrendRows :
         \E cells \in [1..numRows -> TrendStrs] :
            csvFile = <<Header(1)>> \o
                      [r \in 1..numRows |-> Row(DateStr, TimeStr, <<cells[r]>>)]
    /\ InitRest

InitTime ==
    /\ \E numRows \in 1..MaxTimeRows :
         \E times \in [1..numRows -> TimeStrs] :
            csvFile = <<Header(1)>> \o
                      [r \in 1..numRows |-> Row(DateStr, times[r], <<<<"3">>>>)]
    /\ InitRest

InitLong ==
    /\ \E numRows \in 1..MaxLongRows, v \in SetStrs :
         csvFile = <<Header(1)>> \o
                   [r \in 1..numRows |-> Row(DateStr, TimeStr, <<v>>)]
    /\ InitRest

InitCsv ==
    /\ \E numRows \in 0..MaxCsvRows :
         \E rows \in [1..numRows -> CsvRows] :
            csvFile = <<Header(1)>> \o rows
    /\ InitRest

Init ==
    /\ \E numRows \in 0..MaxCfgRows :
         \E cells \in [1..numRows -> SetStrs] :
            csvFile = <<Header(1)>> \o
                      [r \in 1..numRows |-> Row(DateStr, TimeStr, <<cells[r]>>)]
    /\ InitRest

\* ------------------------------------------------------------------------
\* Operations.
\* Requested day counts: omitted, below 1, within the table, beyond it.
DayArgs(extra) == {NoArg} \cup {Arg(i) : i \in (0 - 1)..(Len(data) + extra)}

SetArgs ==
    {NoArg} \cup {Arg(i) : i \in 0..(getNumsOfRowsAndSets(header, data)[2] + 1)}

loadStatisticsFromCsv ==
    /\ ~loaded
    /\ loaded' = TRUE
    /\ header' = Head(csvFile)
    /\ data' = DictRows(Head(csvFile), Tail(csvFile))
    /\ UNCHANGED <<csvFile, rcParams, last, driver>>

plot3dBarChart(nArg, kArg, cfg) ==
    /\ loaded
    /\ rcParams' = SetRcParams(rcParams, cfg)
    /\ last' = [Plot3dBarChartResult(header, data, nArg, kArg) EXCEPT !.cfg = cfg]
    /\ UNCHANGED <<csvFile, loaded, header, data, driver>>

plotTrend(nArg, cfg) ==
    /\ loaded
    /\ rcParams' = SetRcParams(rcParams, cfg)
    /\ last' = [PlotTrendResult(header, data, nArg) EXCEPT !.cfg = cfg]
    /\ UNCHANGED <<csvFile, loaded, header, data, driver>>

plotDailyTimeSpent(nArg, cfg) ==
    /\ loaded
    /\ rcParams' = SetRcParams(rcParams, cfg)
    /\ last' = [PlotDailyTimeSpentResult(header, data, nArg) EXCEPT !.cfg = cfg]
    /\ UNCHANGED <<csvFile, loaded, header, data, driver>>

\* Calls in any order, with any of the configurations.
Next ==
    \/ loadStatisticsFromCsv
    \/ \E nArg \in DayArgs(1), kArg \in SetArgs, cfg \in Cfgs :
         plot3dBarChart(nArg, kArg, cfg)
    \/ \E nArg \in DayArgs(ExtraDays), cfg \in Cfgs : plotTrend(nArg, cfg)
    \/ \E nArg \in DayArgs(1), cfg \in Cfgs : plotDailyTimeSpent(nArg, cfg)

\* Calls in any order, all with the configuration of the batch driver.
NextDriver ==
    \/ loadStatisticsFromCsv
    \/ \E nArg \in DayArgs(1), kArg \in SetArgs :
         plot3dBarChart(nArg, kArg, DriverCfg)
    \/ \E nArg \in DayArgs(ExtraDays) : plotTrend(nArg, DriverCfg)
    \/ \E nArg \in DayArgs(1) : plotDailyTimeSpent(nArg, DriverCfg)

Spec == Init /\ [][Next]_vars

SpecShape == InitShape /\ [][NextDriver]_vars

SpecTrend == InitTrend /\ [][NextDriver]_vars

SpecTime == InitTime /\ [][NextDriver]_vars

SpecLong == InitLong /\ [][NextDriver]_vars

SpecCsv == InitCsv /\ [][NextDriver]_vars

\* ------------------------------------------------------------------------
\* The batch script plotPullUpStatistics.py: it loads the table and runs its
\* five loops in order; an exception of a call ends the run.  The options
\* flagEndDateDataInTitle and lineWidth of its calls change the title text
\* and the stroke only.
LastDay == 365

ScriptSquareCfg == [DriverCfg EXCEPT !.figureSize = "(9,8)"]

ScriptWideCfg == [DriverCfg EXCEPT !.figureSize = "(16,9)"]

\* Tables of the script: every set of a day holds the same value.
ScriptSets == {1, 2, 5}

InitScript ==
    /\ \E numSets \in ScriptSets, numRows \in 1..MaxScriptRows :
         \E cells \in [1..numRows -> SetStrs] :
            csvFile = <<Header(numSets)>> \o
                      [r \in 1..numRows |->
                         Row(DateStr, TimeStr, [j \in 1..numSets |-> cells[r]])]
    /\ loaded = FALSE
    /\ header = <<>>
    /\ data = <<>>
    /\ rcParams = RcDefaults
    /\ last = NoResult
    /\ driver = ScriptAt("load", 0, 0)

\* Where each loop starts, or the loop after it when its range is empty.
AvailableStart(totalNumOfRows) ==
    IF totalNumOfRows > 0 THEN ScriptAt("available", 0, 0)
    ELSE ScriptAt("done", 0, 0)

WideStart(totalNumOfRows) ==
    IF totalNumOfRows < LastDay THEN ScriptAt("wide", totalNumOfRows, 0)
    ELSE AvailableStart(totalNumOfRows)

SquareStart(totalNumOfRows) ==
    IF 1 < totalNumOfRows THEN ScriptAt("squareTrend", 1, 0)
    ELSE WideStart(totalNumOfRows)

TrendStart == ScriptAt("trend", 1, 0)

BarStart(totalNumOfRows, totalNumOfSets) ==
    IF totalNumOfRows > 0 /\ totalNumOfSets > 0 THEN ScriptAt("bars", 0, 0)
    ELSE TrendStart

\* The script's position after a call: the run ends when the call raised.
AfterCall(result, next) ==
    IF result.status # "ok" THEN ScriptAt("failed", driver.idxRow, driver.idxSet)
    ELSE next

\* One call of the script: the routine's effects and the script's move.
ScriptCall(result, cfg, next) ==
    /\ rcParams' = SetRcParams(rcParams, cfg)
    /\ last' = [result EXCEPT !.cfg = cfg]
    /\ driver' = AfterCall(result, next)
    /\ UNCHANGED <<csvFile, loaded, header, data>>

ScriptLoad ==
    /\ driver.pc = "load"
    /\ loaded' = TRUE
    /\ header' = Head(csvFile)
    /\ data' = DictRows(Head(csvFile), Tail(csvFile))
    /\ driver' = BarStart(getNumsOfRowsAndSets(header', data')[1],
                          getNumsOfRowsAndSets(header', data')[2])
    /\ UNCHANGED <<csvFile, rcParams, last>>

ScriptBar ==
    /\ driver.pc = "bars"
    /\ LET totalNumOfRows == getNumsOfRowsAndSets(header, data)[1]
           totalNumOfSets == getNumsOfRowsAndSets(header, data)[2]
       IN ScriptCall(
            Plot3dBarChartResult(header, data, Arg(driver.idxRow + 1),
                                 Arg(driver.idxSet + 1)),
            DriverCfg,
            IF driver.idxSet + 1 < totalNumOfSets
            THEN ScriptAt("bars", driver.idxRow, driver.idxSet + 1)
            ELSE IF driver.idxRow + 1 < totalNumOfRows
            THEN ScriptAt("bars", driver.idxRow + 1, 0)
            ELSE TrendStart)

ScriptTrend ==
    /\ driver.pc = "trend"
    /\ ScriptCall(
         PlotTrendResult(header, data, Arg(driver.idxRow + 1)), DriverCfg,
         IF driver.idxRow + 1 < LastDay
         THEN ScriptAt("trend", driver.idxRow + 1, 0)
         ELSE SquareStart(Len(data)))

ScriptSquareTrend ==
    /\ driver.pc = "squareTrend"
    /\ ScriptCall(
         PlotTrendResult(header, data, Arg(driver.idxRow + 1)),
         ScriptSquareCfg, ScriptAt("squareTime", driver.idxRow, 0))

ScriptSquareTime ==
    /\ driver.pc = "squareTime"
    /\ ScriptCall(
         PlotDailyTimeSpentResult(header, data, Arg(driver.idxRow + 1)),
         ScriptSquareCfg,
         IF driver.idxRow + 1 < Len(data)
         THEN ScriptAt("squareTrend", driver.idxRow + 1, 0)
         ELSE WideStart(Len(data)))

ScriptWide ==
    /\ driver.pc = "wide"
    /\ ScriptCall(
         PlotTrendResult(header, data, Arg(driver.idxRow + 1)), ScriptWideCfg,
         IF driver.idxRow + 1 < LastDay
         THEN ScriptAt("wide", driver.idxRow + 1, 0)
         ELSE AvailableStart(Len(data)))

ScriptAvailable ==
    /\ driver.pc = "available"
    /\ ScriptCall(
         PlotTrendResult(header, data, Arg(driver.idxRow + 1)), ScriptWideCfg,
         IF driver.idxRow + 1 < Len(data)
         THEN ScriptAt("available", driver.idxRow + 1, 0)
         ELSE ScriptAt("done", 0, 0))

NextScript ==
    \/ ScriptLoad
    \/ ScriptBar
    \/ ScriptTrend
    \/ ScriptSquareTrend
    \/ ScriptSquareTime
    \/ ScriptWide
    \/ ScriptAvailable

SpecScript == InitScript /\ [][NextScript]_vars

\* ------------------------------------------------------------------------
\* Vocabulary of the properties.
TotalNumOfRows == Len(data)

TotalNumOfSets == getNumsOfRowsAndSets(header, data)[2]

\* The day count and the last-day set count the latest call asked for,
\* after the defaults of the routine.
ReqRows ==
    IF last.numOfRowsToShow = NoArg THEN TotalNumOfRows
    ELSE last.numOfRowsToShow[1]

ReqSets ==
    IF last.numOfSetsToShowForLastRow = NoArg THEN TotalNumOfSets
    ELSE last.numOfSetsToShowForLastRow[1]

\* The integer a table cell of decimal digits stands for.
CellInt(r, j) == PyInt(data[r][SetKey(j)]).val

\* C1: for 1 <= numDays <= R and 0 <= numSetsLastDay <= S the set matrix of
\* plot3dBarChart has numDays rows of S entries; every row before the last
\* holds the table's values, the last row holds the first numSetsLastDay
\* values of its day followed by zeros.
C1_SetMatrixShape ==
    (/\ last.op = "plot3dBarChart"
     /\ ReqRows >= 1 /\ ReqRows <= TotalNumOfRows
     /\ ReqSets >= 0 /\ ReqSets <= TotalNumOfSets)
    => /\ Len(last.histSetValues) = ReqRows
       /\ \A r \in 1..ReqRows :
            /\ Len(last.histSetValues[r]) = TotalNumOfSets
            /\ \A j \in 1..TotalNumOfSets :
                 last.histSetValues[r][j] =
                    IF r < ReqRows \/ j <= ReqSets THEN CellInt(r, j) ELSE 0

C1_Witness ==
    /\ last.op = "plot3dBarChart"
    /\ ReqRows = 2 /\ TotalNumOfRows = 3
    /\ ReqSets = 1 /\ TotalNumOfSets = 2
    /\ last.histSetValues = <<<<3, 12>>, <<12, 0>>>>

\* The set matrix plot3dBarChart builds for the table and the day count of
\* the latest call, showing k sets of the last day.
MatrixFor(k) ==
    Plot3dBarChartResult(header, data, Arg(ReqRows), Arg(k)).histSetValues

\* C2 as stated: for numDays in 1..R, every numSetsLastDay in 1..S and every
\* day d (the last included) plotTrend's total of day d is the sum of row d
\* of the set matrix and its first-set value is the row's first entry.
C2_TotalsEqualRowSums ==
    (/\ last.op = "plotTrend" /\ last.status = "ok"
     /\ ReqRows >= 1 /\ ReqRows <= TotalNumOfRows)
    => \A k \in 1..TotalNumOfSets : \A d \in 1..ReqRows :
          /\ last.totalReps[d] = SumSeq(MatrixFor(k)[d])
          /\ last.firstSetReps[d] = MatrixFor(k)[d][1]

\* C2 amended: the totals equal the row sums for every day before the last;
\* the total of the last day is the row sum plus the table's values of the
\* sets after numSetsLastDay (equal when numSetsLastDay = S); the first-set
\* value is the first entry of the row for every day.
C2_TotalsVersusRows ==
    (/\ last.op = "plotTrend" /\ last.status = "ok"
     /\ ReqRows >= 1 /\ ReqRows <= TotalNumOfRows)
    => /\ Len(last.totalReps) = ReqRows
       /\ Len(last.firstSetReps) = ReqRows
       /\ \A k \in 1..TotalNumOfSets : \A d \in 1..ReqRows :
             /\ d < ReqRows => last.totalReps[d] = SumSeq(MatrixFor(k)[d])
             /\ d = ReqRows =>
                  last.totalReps[d] = SumSeq(MatrixFor(k)[d]) +
                     SumSeq([j \in 1..(TotalNumOfSets - k) |->
                               CellInt(d, k + j)])
             /\ last.firstSetReps[d] = MatrixFor(k)[d][1]

C2_Witness ==
    /\ last.op = "plotTrend" /\ last.status = "ok"
    /\ ReqRows = 2 /\ TotalNumOfRows >= 2 /\ TotalNumOfSets = 2
    /\ last.totalReps[2] = 15
    /\ SumSeq(MatrixFor(1)[2]) = 3

\* The observed series of the table: daily totals and first-set values.
ObservedTotal(r) == SumSeq([j \in 1..TotalNumOfSets |-> CellInt(r, j)])

ObservedFirst(r) == CellInt(r, 1)

\* The line (a*x+b)/den is the least-squares line of the points (i, y[i]),
\* i = 1..n: the residuals sum to zero and are orthogonal to x.
IsLeastSquares(fit, y, n) ==
    /\ fit.den > 0
    /\ SumSeq([i \in 1..n |-> fit.den * y[i] - fit.a * i - fit.b]) = 0
    /\ SumSeq([i \in 1..n |-> i * (fit.den * y[i] - fit.a * i - fit.b)]) = 0

\* C3: a request for day N > R (R >= 2) fits each series over all R observed
\* points and overlays exactly the points x = 1 and x = N of that line; the
\* totals 10, 20, 30 give slope 10, intercept 0 and 60 at N = 6.
C3_FitOverAllObserved ==
    (/\ last.op = "plotTrend" /\ last.status = "ok"
     /\ TotalNumOfRows >= 2 /\ ReqRows > TotalNumOfRows)
    => /\ Len(last.fit) = 2
       /\ IsLeastSquares(last.fit[1],
                         [r \in 1..TotalNumOfRows |-> ObservedFirst(r)],
                         TotalNumOfRows)
       /\ IsLeastSquares(last.fit[2],
                         [r \in 1..TotalNumOfRows |-> ObservedTotal(r)],
                         TotalNumOfRows)
       /\ last.xsPre = <<1, ReqRows>>
       /\ last.firstSetRepsPre =
             <<<<last.fit[1].a + last.fit[1].b, last.fit[1].den>>,
               <<last.fit[1].a * ReqRows + last.fit[1].b, last.fit[1].den>>>>
       /\ last.totalRepsPre =
             <<<<last.fit[2].a + last.fit[2].b, last.fit[2].den>>,
               <<last.fit[2].a * ReqRows + last.fit[2].b, last.fit[2].den>>>>
       /\ (last.totalReps = <<10, 20, 30>> /\ ReqRows = 6) =>
             /\ last.fit[2].a = 10 * last.fit[2].den
             /\ last.fit[2].b = 0
             /\ last.totalRepsPre[2][1] = 60 * last.totalRepsPre[2][2]

C3_Witness ==
    /\ last.op = "plotTrend" /\ last.status = "ok"
    /\ last.totalReps = <<10, 20, 30>> /\ ReqRows = 6
    /\ last.xsPre = <<1, 6>>
    /\ last.totalRepsPre[2][1] = 60 * last.totalRepsPre[2][2]

\* A string of the form H:MM:SS: one or more digits, then ':', two digits
\* of 00..59, ':', two digits of 00..59.
IsHMMSS(s) ==
    LET n == Len(s)
    IN /\ n >= 7
       /\ s[n - 5] = ":" /\ s[n - 2] = ":"
       /\ \A i \in (1..(n - 6)) \cup {n - 4, n - 3, n - 1, n} : IsDigit(s[i])
       /\ DigitVal(s[n - 4]) <= 5 /\ DigitVal(s[n - 1]) <= 5

\* hours*3600 + minutes*60 + seconds of an H:MM:SS string.
HMMSSSeconds(s) ==
    LET n == Len(s)
    IN DigitsVal(SubSeq(s, 1, n - 6), 0) * 3600
       + (10 * DigitVal(s[n - 4]) + DigitVal(s[n - 3])) * 60
       + 10 * DigitVal(s[n - 1]) + DigitVal(s[n])

WorkoutTimeOf(r) == data[r]["WorkoutTime"]

\* C4: when the WorkoutTime strings of days 1..numDays have the form
\* H:MM:SS, plotDailyTimeSpent computes numDays durations in table order,
\* each hours*3600 + minutes*60 + seconds ("0:04:10" is 250, "1:00:00" is
\* 3600); in a call that succeeds this holds of every H:MM:SS day.
C4_DurationsInSeconds ==
    (/\ last.op = "plotDailyTimeSpent" /\ last.numOfRowsToShow # NoArg
     /\ ReqRows >= 1 /\ ReqRows <= TotalNumOfRows)
    => /\ (\A d \in 1..ReqRows : IsHMMSS(WorkoutTimeOf(d)))
             => Len(last.workoutTimesInS) = ReqRows
       /\ last.status = "ok" => Len(last.workoutTimesInS) = ReqRows
       /\ Len(last.workoutTimesInS) = ReqRows =>
             \A d \in 1..ReqRows :
                /\ IsHMMSS(WorkoutTimeOf(d)) =>
                     last.workoutTimesInS[d] = HMMSSSeconds(WorkoutTimeOf(d))
                /\ WorkoutTimeOf(d) = TimeStr => last.workoutTimesInS[d] = 250
                /\ WorkoutTimeOf(d) = <<"1", ":", "0", "0", ":", "0", "0">>
                     => last.workoutTimesInS[d] = 3600

C4_Witness ==
    /\ last.op = "plotDailyTimeSpent" /\ last.status = "ok"
    /\ ReqRows = 2
    /\ WorkoutTimeOf(1) = TimeStr
    /\ WorkoutTimeOf(2) = <<"1", ":", "0", "0", ":", "0", "0">>
    /\ last.workoutTimesInS = <<250, 3600>>

\* C5 as stated: every call of plot3dBarChart with a day count below 1,
\* on any table (the empty one included), fails with the range error.
C5_RangeErrorBelowOne ==
    (/\ last.op = "plot3dBarChart" /\ last.numOfRowsToShow # NoArg
     /\ ReqRows < 1)
    => last.status = RangeErrorMsg

\* A string that at most blanks surround, of an optional sign and one or
\* more digits: what int() accepts over the characters of the model.
IsIntText(f) ==
    LET solid == {i \in 1..Len(f) : f[i] # " "}
    IN /\ solid # {}
       /\ LET lo == CHOOSE i \in solid : \A o \in solid : i <= o
              hi == CHOOSE i \in solid : \A o \in solid : i >= o
              start == IF f[lo] \in {"+", "-"} THEN lo + 1 ELSE lo
          IN start <= hi /\ \A i \in start..hi : IsDigit(f[i])

\* A string of exactly three ':'-separated fields, each an integer text.
ThreeIntFields(s) ==
    LET colons == {i \in 1..Len(s) : s[i] = ":"}
    IN /\ Cardinality(colons) = 2
       /\ LET p1 == CHOOSE i \in colons : \A o \in colons : i <= o
              p2 == CHOOSE i \in colons : \A o \in colons : i >= o
          IN /\ IsIntText(SubSeq(s, 1, p1 - 1))
             /\ IsIntText(SubSeq(s, p1 + 1, p2 - 1))
             /\ IsIntText(SubSeq(s, p2 + 1, Len(s)))

\* C6 as stated: if some day among the first numDays has a WorkoutTime
\* string that is not of the form H:MM:SS, plotDailyTimeSpent fails with a
\* parse error; no such string is converted to seconds.
C6_MalformedAlwaysFails ==
    (/\ last.op = "plotDailyTimeSpent" /\ last.numOfRowsToShow # NoArg
     /\ ReqRows >= 1 /\ ReqRows <= TotalNumOfRows
     /\ \E d \in 1..ReqRows : ~IsHMMSS(WorkoutTimeOf(d)))
    => last.status = "ValueError"

\* C6 amended: if some day among the first numDays has a WorkoutTime string
\* that is not three ':'-separated integer texts, plotDailyTimeSpent fails
\* with a ValueError and produces no duration sequence; when every such
\* string is three integer texts, H:MM:SS or not, all are converted.
C6_UnparsableFails ==
    (/\ last.op = "plotDailyTimeSpent" /\ last.numOfRowsToShow # NoArg
     /\ ReqRows >= 1 /\ ReqRows <= TotalNumOfRows)
    => /\ (\E d \in 1..ReqRows : ~ThreeIntFields(WorkoutTimeOf(d)))
             => (last.status = "ValueError" /\ last.workoutTimesInS = <<>>)
       /\ (\A d \in 1..ReqRows : ThreeIntFields(WorkoutTimeOf(d)))
             => Len(last.workoutTimesInS) = ReqRows

C6_Witness ==
    /\ last.op = "plotDailyTimeSpent" /\ last.numOfRowsToShow = Arg(2)
    /\ TotalNumOfRows = 2
    /\ WorkoutTimeOf(1) = TimeStr
    /\ WorkoutTimeOf(2) = <<"a", "b", "c">>
    /\ last.status = "ValueError" /\ last.workoutTimesInS = <<>>

\* C7 as stated: a trend fit on a history of one point (a table of one row,
\* a requested day count above 1) fails instead of producing a slope, an
\* intercept and a prediction.
C7_DegenerateFitFails ==
    (/\ last.op = "plotTrend" /\ last.numOfRowsToShow # NoArg
     /\ TotalNumOfRows = 1 /\ ReqRows > 1)
    => (last.status # "ok" /\ last.fit = <<>>)

\* C8 as stated: loadStatisticsFromCsv returns a table only when every data
\* row has as many fields as the header, so every record of a returned
\* table has exactly the header's column names as its keys.
C8_RaggedRowsRejected ==
    loaded =>
       /\ \A r \in 2..Len(csvFile) :
             csvFile[r] = <<>> \/ Len(csvFile[r]) = Len(csvFile[1])
       /\ \A r \in 1..Len(data) :
             DOMAIN data[r] = {header[i] : i \in 1..Len(header)}

\* The opacity, in tenths, of the day k days before the most recent one.
DecayedAlpha(k) == IF 10 - k < 3 THEN 3 ELSE 10 - k

\* C9 as stated: in every chart of numDays >= 1 days the bars of the day k
\* days before the most recent one have opacity max(1.0 - 0.1*k, 0.3).
C9_OpacityDecay ==
    (last.op = "plot3dBarChart" /\ last.status = "ok" /\ ReqRows >= 1)
    => /\ Len(last.bars) = ReqRows
       /\ \A k \in 0..(ReqRows - 1) :
             last.bars[ReqRows - k].alpha = DecayedAlpha(k)

\* C9 amended: in every chart of numDays >= 2 days the bars of the day k
\* days before the most recent one have opacity max(1.0 - 0.1*k, 0.3), so 6
\* days give 1.0 .. 0.5; the bars of a chart of one day have opacity 0.8.
C9_OpacityDecayFromTwoDays ==
    (last.op = "plot3dBarChart" /\ last.status = "ok" /\ ReqRows >= 1)
    => /\ Len(last.bars) = ReqRows
       /\ ReqRows >= 2 =>
             \A k \in 0..(ReqRows - 1) :
                /\ last.bars[ReqRows - k].alpha = DecayedAlpha(k)
                /\ last.bars[ReqRows - k].z = k
       /\ ReqRows = 6 =>
             [i \in 1..6 |-> last.bars[i].alpha] = <<5, 6, 7, 8, 9, 10>>
       /\ ReqRows = 1 => last.bars[1].alpha = 8

C9_Witness ==
    /\ last.op = "plot3dBarChart" /\ last.status = "ok"
    /\ ReqRows = 9
    /\ last.bars[1].alpha = 3 /\ last.bars[2].alpha = 3
    /\ last.bars[9].alpha = 10

\* The configuration a call's own arguments describe, nothing carried over:
\* an omitted figureSize stands for the library's default size.
OwnConfiguration(cfg) ==
    [font_sans_serif |-> cfg.fontInPlot, axes_unicode_minus |-> "False",
     axes_labelsize |-> cfg.labelSize, axes_titlesize |-> cfg.titleSize,
     xtick_labelsize |-> cfg.tickSize, ytick_labelsize |-> cfg.tickSize,
     figure_figsize |-> IF cfg.figureSize = "None" THEN "<default>"
                        ELSE cfg.figureSize]

\* C10 as stated: after any sequence of calls the configuration in effect
\* while a call renders is determined by that call's own arguments alone.
C10_ConfigurationFromOwnArguments ==
    last.status = "ok" => rcParams = OwnConfiguration(last.cfg)

\* C10 amended: every call sets the font, the minus-sign flag and the
\* label, title and tick sizes from its own arguments; it sets the figure
\* size when figureSize is given and otherwise leaves the size as it was
\* before the call.
C10_FigureSizeCarriesOver ==
    [][loaded =>
         /\ \A key \in DOMAIN RcDefaults \ {"figure_figsize"} :
               rcParams'[key] = OwnConfiguration(last'.cfg)[key]
         /\ rcParams'.figure_figsize =
               IF last'.cfg.figureSize = "None" THEN rcParams.figure_figsize
               ELSE last'.cfg.figureSize]_vars

C10_Witness ==
    /\ last.op = "plotTrend" /\ last.status = "ok"
    /\ last.cfg = DefaultCfg
    /\ rcParams.figure_figsize = "(16,9)"
    /\ rcParams.axes_labelsize = "large"

\* C11 as stated: in a run of the batch script on a table of at least one
\* row, every plotTrend call that asks for a day beyond the observed rows,
\* and so fits a line, passes a history of at least 2 points (x = 1, 2, ..).
C11_ScriptFitsTwoPoints ==
    (/\ driver.pc # "idle" /\ TotalNumOfRows >= 1
     /\ last.op = "plotTrend" /\ last.numOfRowsToShow # NoArg
     /\ ReqRows > TotalNumOfRows /\ last.fit # <<>>)
    => Len(last.totalReps) >= 2

\* C12 as stated: in the one-day branch of plot3dBarChart, for S >= 1 set
\* columns and numSetsLastDay in 1..S, the x positions 1..max(5,
\* numSetsLastDay) and the bar heights taken from the first matrix row are
\* lists of the same length.
C12_SingleDayListsMatch ==
    (/\ last.op = "plot3dBarChart"
     /\ ReqRows = 1 /\ TotalNumOfRows >= 1 /\ TotalNumOfSets >= 1
     /\ ReqSets >= 1 /\ ReqSets <= TotalNumOfSets
     /\ Len(last.histSetValues) = 1)
    => Len(Bars2D(last.histSetValues, ReqSets)[1].xs)
          = Len(Bars2D(last.histSetValues, ReqSets)[1].ys)

====
